---------------------------- MODULE Spec2Model ----------------------------
(***************************************************************************)
(* SpecGenie (src/app.py): the three text generators and the Flask routes  *)
(* that keep their results in the per-user session.                        *)
(*                                                                         *)
(* A Python str is a sequence of one-character strings, so that splitting, *)
(* trimming, lower-casing, prefix removal and substring search are         *)
(* computed character by character.                                        *)
(*                                                                         *)
(*   FnSpec  applies generate_user_stories, extract_entities and           *)
(*           generate_risks to every text built from at most MaxTokens     *)
(*           fragments of Vocab.                                           *)
(*   Spec    is the session: the requests /, /analyze, /results, /demo and *)
(*           /export_stories_pdf in any order.                             *)
(***************************************************************************)
EXTENDS Integers, Sequences, FiniteSets

VARIABLES text, result, session, request, response, calls

vars == <<text, result, session, request, response, calls>>

-----------------------------------------------------------------------------
(* Python str primitives                                                   *)

UpperChars == <<"A","B","C","D","E","F","G","H","I","J","K","L","M","N","O","P","Q","R","S","T","U","V","W","X","Y","Z">>

LowerChars == <<"a","b","c","d","e","f","g","h","i","j","k","l","m","n","o","p","q","r","s","t","u","v","w","x","y","z">>

\* str.strip() removes leading and trailing whitespace characters
Whitespace == {" ", "\n", "\t"}

\* the character class [.\n] of re.split
Separators == {".", "\n"}

\* the upper-case letters and their lower-case forms
ToLower == [c \in {UpperChars[k] : k \in 1..Len(UpperChars)} |->
               LowerChars[CHOOSE k \in 1..Len(UpperChars) : UpperChars[k] = c]]

ToUpper == [c \in {LowerChars[k] : k \in 1..Len(LowerChars)} |->
               UpperChars[CHOOSE k \in 1..Len(LowerChars) : LowerChars[k] = c]]

lower_char(c) == IF c \in DOMAIN ToLower THEN ToLower[c] ELSE c

upper_char(c) == IF c \in DOMAIN ToUpper THEN ToUpper[c] ELSE c

\* str.lower()
lower(s) == [i \in 1..Len(s) |-> lower_char(s[i])]

\* str.capitalize(): first character upper-cased, the rest lower-cased
capitalize(s) == [i \in 1..Len(s) |-> IF i = 1 THEN upper_char(s[i]) ELSE lower_char(s[i])]

\* str.strip()
strip(s) ==
    LET kept == {i \in 1..Len(s) : s[i] \notin Whitespace}
    IN  IF kept = {} THEN <<>>
        ELSE LET first == CHOOSE i \in kept : \A j \in kept : i <= j
                 last  == CHOOSE i \in kept : \A j \in kept : j <= i
             IN  SubSeq(s, first, last)

\* str.startswith(prefix)
starts_with(s, prefix) ==
    /\ Len(prefix) <= Len(s)
    /\ \A j \in 1..Len(prefix) : s[j] = prefix[j]

\* Variant: the keyword is looked for at the start of the text only.
contains_at_start(keyword, description_lower) == starts_with(description_lower, keyword)

\* the operator `keyword in description_lower`: substring containment
contains(keyword, description_lower) ==
    \E i \in 1..(Len(description_lower) - Len(keyword) + 1) :
        \A j \in 1..Len(keyword) : description_lower[i + j - 1] = keyword[j]

\* re.split(r'[.\n]+', s) from position p on: the piece up to the next run of
\* separators, then the pieces after that run; the last piece may be empty
RECURSIVE split_from(_, _)
split_from(s, p) ==
    LET seps == {i \in p..Len(s) : s[i] \in Separators}
    IN  IF seps = {} THEN <<SubSeq(s, p, Len(s))>>
        ELSE LET a == CHOOSE i \in seps : \A j \in seps : i <= j
                 after == {i \in a..Len(s) : s[i] \notin Separators}
                 b == IF after = {} THEN Len(s) + 1
                      ELSE CHOOSE i \in after : \A j \in after : i <= j
             IN  <<SubSeq(s, p, a - 1)>> \o split_from(s, b)

re_split(s) == split_from(s, 1)

-----------------------------------------------------------------------------
(* generate_user_stories                                                   *)

MinSentenceLen == 10

\* the alternatives of the pattern ^(...|...) in the order the regex tries them
FillerPrefixes == <<
    <<"t","h","e"," ","s","y","s","t","e","m"," ","s","h","o","u","l","d"," ">>,
    <<"t","h","e"," ","a","p","p"," ","s","h","o","u","l","d"," ">>,
    <<"u","s","e","r","s"," ","c","a","n"," ">>,
    <<"t","h","e"," ","u","s","e","r"," ","c","a","n"," ">>,
    <<"i","t"," ","s","h","o","u","l","d"," ">>,
    <<"s","h","o","u","l","d"," ">> >>

StoryHead == <<"A","s"," ","a"," ","u","s","e","r",","," ","I"," ","w","a","n","t"," ","t","o"," ">>

StoryTail == <<" ","s","o"," ","t","h","a","t"," ","I"," ","c","a","n"," ","a","c","c","o","m","p","l","i","s","h"," ","m","y"," ","g","o","a","l","s"," ","e","f","f","i","c","i","e","n","t","l","y",".">>

DefaultStory == <<"A","s"," ","a"," ","u","s","e","r",","," ","I"," ","w","a","n","t"," ","t","o"," ","u","s","e"," ","t","h","e"," ","s","y","s","t","e","m"," ","s","o"," ","t","h","a","t"," ","I"," ","c","a","n"," ","a","c","c","o","m","p","l","i","s","h"," ","m","y"," ","t","a","s","k","s",".">>

\* Variant: a sentence of exactly 10 characters is skipped as well.
too_short_inclusive(sentence) == Len(sentence) <= MinSentenceLen

\* len(sentence) < 10: the sentence is skipped
too_short(sentence) == Len(sentence) < MinSentenceLen

\* Variant: leading fillers are removed until none is left.
RECURSIVE remove_filler_repeatedly(_)
remove_filler_repeatedly(action) ==
    LET hits == {k \in 1..Len(FillerPrefixes) : starts_with(action, FillerPrefixes[k])}
    IN  IF hits = {} THEN action
        ELSE LET k == CHOOSE h \in hits : \A g \in hits : h <= g
             IN  remove_filler_repeatedly(SubSeq(action, Len(FillerPrefixes[k]) + 1, Len(action)))

\* re.sub(r'^(p1|p2|...)', '', action): the pattern is anchored at the start of
\* the string, so at most one match, the first alternative that matches there
remove_filler(action) ==
    LET hits == {k \in 1..Len(FillerPrefixes) : starts_with(action, FillerPrefixes[k])}
    IN  IF hits = {} THEN action
        ELSE LET k == CHOOSE h \in hits : \A g \in hits : h <= g
             IN  SubSeq(action, Len(FillerPrefixes[k]) + 1, Len(action))

\* f"As a user, I want to {action} so that I can accomplish my goals efficiently."
make_story(action) == StoryHead \o action \o StoryTail

\* one pass of the loop body: the stories one raw sentence contributes
story_of(raw) ==
    LET sentence == strip(raw)
    IN  IF too_short(sentence) THEN <<>>
        ELSE <<make_story(remove_filler(lower(sentence)))>>

RECURSIVE stories_loop(_, _)
stories_loop(sentences, i) ==
    IF i > Len(sentences) THEN <<>>
    ELSE story_of(sentences[i]) \o stories_loop(sentences, i + 1)

\* Variant: no default story when the loop produced none.
generate_user_stories_no_default(description) == stories_loop(re_split(description), 1)

generate_user_stories(description) ==
    LET user_stories == stories_loop(re_split(description), 1)
    IN  IF user_stories = <<>> THEN <<DefaultStory>> ELSE user_stories

-----------------------------------------------------------------------------
(* extract_entities                                                        *)

\* the dict entity_patterns in insertion order, which is its iteration order
entity_patterns == <<
    [keyword |-> <<"u","s","e","r">>,
     responsibilities |-> "Authenticate, view content, perform actions, manage profile"],
    [keyword |-> <<"a","d","m","i","n">>,
     responsibilities |-> "Manage users, configure system, view reports, moderate content"],
    [keyword |-> <<"c","u","s","t","o","m","e","r">>,
     responsibilities |-> "Browse products, place orders, track deliveries, leave reviews"],
    [keyword |-> <<"o","r","d","e","r">>,
     responsibilities |-> "Store order details, track status, calculate totals, manage items"],
    [keyword |-> <<"p","r","o","d","u","c","t">>,
     responsibilities |-> "Store product info, manage inventory, display details, handle pricing"],
    [keyword |-> <<"s","y","s","t","e","m">>,
     responsibilities |-> "Process requests, manage data, handle errors, provide services"],
    [keyword |-> <<"d","a","t","a","b","a","s","e">>,
     responsibilities |-> "Store data, handle queries, ensure integrity, manage backups"],
    [keyword |-> <<"p","a","y","m","e","n","t">>,
     responsibilities |-> "Process transactions, validate cards, handle refunds, generate receipts"],
    [keyword |-> <<"r","e","p","o","r","t">>,
     responsibilities |-> "Aggregate data, generate visualizations, export formats, schedule delivery"],
    [keyword |-> <<"n","o","t","i","f","i","c","a","t","i","o","n">>,
     responsibilities |-> "Send alerts, manage preferences, track delivery, handle templates"],
    [keyword |-> <<"p","r","o","j","e","c","t">>,
     responsibilities |-> "Store project info, track progress, manage members, handle deadlines"],
    [keyword |-> <<"t","a","s","k">>,
     responsibilities |-> "Track status, assign owners, set deadlines, manage dependencies"],
    [keyword |-> <<"f","i","l","e">>,
     responsibilities |-> "Store content, manage versions, handle uploads, control access"],
    [keyword |-> <<"m","e","s","s","a","g","e">>,
     responsibilities |-> "Store content, track read status, manage threads, handle attachments"],
    [keyword |-> <<"a","c","c","o","u","n","t">>,
     responsibilities |-> "Manage credentials, track activity, handle permissions, store preferences"],
    [keyword |-> <<"i","n","v","e","n","t","o","r","y">>,
     responsibilities |-> "Track quantities, manage locations, handle transfers, set alerts"],
    [keyword |-> <<"c","a","t","e","g","o","r","y">>,
     responsibilities |-> "Organize items, manage hierarchy, handle relationships, enable filtering"],
    [keyword |-> <<"r","e","v","i","e","w">>,
     responsibilities |-> "Store ratings, manage comments, track helpfulness, moderate content"],
    [keyword |-> <<"c","a","r","t">>,
     responsibilities |-> "Manage items, calculate totals, handle quantities, persist session"],
    [keyword |-> <<"s","h","i","p","p","i","n","g">>,
     responsibilities |-> "Calculate costs, track packages, manage addresses, handle returns"] >>

DefaultEntity ==
    [entity |-> <<"S","y","s","t","e","m">>,
     responsibilities |-> "Handle core business logic and user interactions"]

\* the dict appended for a matching keyword
make_entity(pattern) ==
    [entity |-> capitalize(pattern.keyword),
     responsibilities |-> pattern.responsibilities]

RECURSIVE entities_loop(_, _)
entities_loop(description_lower, i) ==
    IF i > Len(entity_patterns) THEN <<>>
    ELSE (IF contains(entity_patterns[i].keyword, description_lower)
          THEN <<make_entity(entity_patterns[i])>>
          ELSE <<>>) \o entities_loop(description_lower, i + 1)

\* Variant: the keywords are searched in the description as typed.
extract_entities_case_sensitive(description) ==
    LET entities == entities_loop(description, 1)
    IN  IF entities = <<>> THEN <<DefaultEntity>> ELSE entities

extract_entities(description) ==
    LET entities == entities_loop(lower(description), 1)
    IN  IF entities = <<>> THEN <<DefaultEntity>> ELSE entities

-----------------------------------------------------------------------------
(* generate_risks                                                          *)

generic_risks == <<
    [risk |-> "Performance issues with large datasets",
     impact |-> "Medium", likelihood |-> "Medium"],
    [risk |-> "Security vulnerabilities in user input handling",
     impact |-> "High", likelihood |-> "Medium"],
    [risk |-> "Insufficient error handling causing poor user experience",
     impact |-> "Medium", likelihood |-> "High"] >>

\* the dict keyword_risks in insertion order, which is its iteration order
keyword_risks == <<
    [keyword |-> <<"p","a","y","m","e","n","t">>,
     risk_data |-> [risk |-> "Payment gateway integration failure", impact |-> "High", likelihood |-> "Low"]],
    [keyword |-> <<"u","s","e","r"," ","d","a","t","a">>,
     risk_data |-> [risk |-> "User data privacy and GDPR compliance issues", impact |-> "High", likelihood |-> "Medium"]],
    [keyword |-> <<"p","a","s","s","w","o","r","d">>,
     risk_data |-> [risk |-> "Weak password storage leading to data breach", impact |-> "High", likelihood |-> "Medium"]],
    [keyword |-> <<"u","p","l","o","a","d">>,
     risk_data |-> [risk |-> "Malicious file upload vulnerability", impact |-> "High", likelihood |-> "Medium"]],
    [keyword |-> <<"a","p","i">>,
     risk_data |-> [risk |-> "API rate limiting and availability issues", impact |-> "Medium", likelihood |-> "Medium"]],
    [keyword |-> <<"d","a","t","a","b","a","s","e">>,
     risk_data |-> [risk |-> "Database corruption or data loss", impact |-> "High", likelihood |-> "Low"]],
    [keyword |-> <<"r","e","a","l","-","t","i","m","e">>,
     risk_data |-> [risk |-> "Real-time synchronization failures", impact |-> "Medium", likelihood |-> "Medium"]],
    [keyword |-> <<"n","o","t","i","f","i","c","a","t","i","o","n">>,
     risk_data |-> [risk |-> "Notification delivery failures or spam issues", impact |-> "Low", likelihood |-> "Medium"]],
    [keyword |-> <<"t","h","i","r","d","-","p","a","r","t","y">>,
     risk_data |-> [risk |-> "Third-party service dependency and downtime", impact |-> "Medium", likelihood |-> "Medium"]],
    [keyword |-> <<"m","o","b","i","l","e">>,
     risk_data |-> [risk |-> "Cross-platform compatibility issues", impact |-> "Medium", likelihood |-> "High"]] >>

\* Variant: the keywords are searched in the description as typed.
risk_haystack_raw(description) == description

\* the text the keywords are searched in
risk_haystack(description) == lower(description)

\* Variant: a keyword appends its risk once per occurrence.
risk_per_occurrence(entry, description_lower) ==
    LET at == {i \in 1..(Len(description_lower) - Len(entry.keyword) + 1) :
                  \A j \in 1..Len(entry.keyword) :
                      description_lower[i + j - 1] = entry.keyword[j]}
    IN  [n \in 1..Cardinality(at) |-> entry.risk_data]

\* what one keyword of the table appends to risks
risk_of(entry, description_lower) ==
    IF contains(entry.keyword, description_lower) THEN <<entry.risk_data>> ELSE <<>>

RECURSIVE risks_loop(_, _)
risks_loop(description_lower, i) ==
    IF i > Len(keyword_risks) THEN <<>>
    ELSE risk_of(keyword_risks[i], description_lower) \o risks_loop(description_lower, i + 1)

\* Variant: the generic risks are appended after the keyword risks.
generate_risks_generic_last(description) ==
    risks_loop(risk_haystack(description), 1) \o generic_risks

generate_risks(description) ==
    generic_risks \o risks_loop(risk_haystack(description), 1)

-----------------------------------------------------------------------------
(* The texts the generators are applied to                                 *)

MaxTokens == 2

Vocab == {
    <<" ">>,
    <<"\n">>,
    <<"\t">>,
    <<".">>,
    <<"T","h","e"," ","s","y","s","t","e","m"," ","s","h","o","u","l","d"," ","a","l","l","o","w"," ","l","o","g","i","n",".">>,
    <<" ","U","s","e","r","s"," ","c","a","n"," ","u","p","l","o","a","d"," ","f","i","l","e","s",".">>,
    <<"H","i",".">>,
    <<"s","h","o","u","l","d"," ","r","u","n">>,
    <<"I","t"," ","s","h","o","u","l","d"," ">>,
    <<"T","H","E"," ","A","P","P"," ","S","H","O","U","L","D"," ">>,
    <<"t","h","e"," ","u","s","e","r"," ","c","a","n"," ","o","r","d","e","r"," ","p","r","o","d","u","c","t","s">>,
    <<"c","a","r","t","o","g","r","a","p","h","y">>,
    <<"U","s","e","r"," ","d","a","t","a">>,
    <<"b","a","s","e">>,
    <<"m","o","b","i","l","e"," ","P","A","Y","M","E","N","T">>,
    <<"s","y","s","t","e","m">>,
    <<"p","a","y","m","e","n","t"," ","u","s","e","r"," ","d","a","t","a"," ","p","a","s","s","w","o","r","d"," ","u","p","l","o","a","d"," ","a","p","i"," ","d","a","t","a","b","a","s","e"," ","r","e","a","l","-","t","i","m","e"," ","n","o","t","i","f","i","c","a","t","i","o","n"," ","t","h","i","r","d","-","p","a","r","t","y"," ","m","o","b","i","l","e">> }

RECURSIVE flatten(_)
flatten(tokens) ==
    IF tokens = <<>> THEN <<>> ELSE Head(tokens) \o flatten(Tail(tokens))

Inputs == {flatten(tokens) : tokens \in UNION {[1..n -> Vocab] : n \in 0..MaxTokens}}

-----------------------------------------------------------------------------
(* The session and the routes                                              *)

\* sample_description of demo()
sample_description == <<"T","h","e"," ","s","y","s","t","e","m"," ","s","h","o","u","l","d"," ","a","l","l","o","w"," ","u","s","e","r","s"," ","t","o"," ","r","e","g","i","s","t","e","r"," ","a","n","d"," ","l","o","g","i","n"," ","s","e","c","u","r","e","l","y",".","\n","U","s","e","r","s"," ","c","a","n"," ","c","r","e","a","t","e"," ","a","n","d"," ","m","a","n","a","g","e"," ","t","h","e","i","r"," ","p","r","o","j","e","c","t","s",".","\n","E","a","c","h"," ","p","r","o","j","e","c","t"," ","c","a","n"," ","h","a","v","e"," ","m","u","l","t","i","p","l","e"," ","t","a","s","k","s"," ","w","i","t","h"," ","d","e","a","d","l","i","n","e","s",".","\n","A","d","m","i","n","s"," ","c","a","n"," ","v","i","e","w"," ","r","e","p","o","r","t","s"," ","a","n","d"," ","m","a","n","a","g","e"," ","a","l","l"," ","u","s","e","r","s",".","\n","T","h","e"," ","s","y","s","t","e","m"," ","s","h","o","u","l","d"," ","s","e","n","d"," ","n","o","t","i","f","i","c","a","t","i","o","n","s"," ","f","o","r"," ","u","p","c","o","m","i","n","g"," ","d","e","a","d","l","i","n","e","s",".","\n","U","s","e","r","s"," ","c","a","n"," ","u","p","l","o","a","d"," ","f","i","l","e","s"," ","a","n","d"," ","a","t","t","a","c","h"," ","t","h","e","m"," ","t","o"," ","t","a","s","k","s",".","\n","T","h","e"," ","d","a","t","a","b","a","s","e"," ","s","h","o","u","l","d"," ","s","t","o","r","e"," ","a","l","l"," ","p","r","o","j","e","c","t"," ","a","n","d"," ","t","a","s","k"," ","i","n","f","o","r","m","a","t","i","o","n",".","\n","U","s","e","r","s"," ","c","a","n"," ","s","e","a","r","c","h"," ","a","n","d"," ","f","i","l","t","e","r"," ","t","h","e","i","r"," ","t","a","s","k","s"," ","b","y"," ","s","t","a","t","u","s"," ","o","r"," ","d","a","t","e",".">>

PdfTitle == <<"S","p","e","c","G","e","n","i","e"," ","-"," ","U","s","e","r"," ","S","t","o","r","i","e","s">>

\* A session key is absent (<<>>) or holds one value (<<v>>).
EmptySession == [analysis |-> <<>>, user_stories |-> <<>>, demo_description |-> <<>>]

\* request.form: the description field is absent (<<>>) or submitted (<<d>>)
SubmittedDescriptions ==
    Vocab \cup {<<>>, <<" "," ","\n">> \o sample_description \o <<"\n"," ">>,
                <<"C","u","s","t","o","m","e","r","s"," ","r","e","v","i","e","w"," ","t","h","e"," ","c","a","r","t","."," ","O","R","D","E","R"," ","S","H","I","P","P","I","N","G">> }

Forms == {<<>>} \cup {<<d>> : d \in SubmittedDescriptions}

NoRequest == [route |-> "none", form |-> <<>>]

NoResponse == [kind |-> "none", target |-> "none", body |-> <<>>]

NoCall == [fn |-> "none", out |-> <<>>]

redirect(endpoint) == [kind |-> "redirect", target |-> endpoint, body |-> <<>>]

render_template(template, context) == [kind |-> "render", target |-> template, body |-> context]

\* request.form.get('description', '')
form_get(form) == IF form = <<>> THEN <<>> ELSE form[1]

\* session.get('demo_description', '')
demo_or_empty(s) == IF s.demo_description = <<>> THEN <<>> ELSE s.demo_description[1]

\* `not analysis`: the key is absent (a stored dict is never empty)
no_analysis(s) == s.analysis = <<>>

\* `not stories`: the key is absent, or the stored list is empty
no_stories(s) == s.user_stories = <<>> \/ s.user_stories[1] = <<>>

\* Variant: session['user_stories'] is written only when the key is absent.
store_analysis_stale(s, description, user_stories, entities, risks) ==
    [analysis |-> << [description |-> description, user_stories |-> user_stories,
                      entities |-> entities, risks |-> risks] >>,
     user_stories |-> IF s.user_stories = <<>> THEN <<user_stories>> ELSE s.user_stories,
     demo_description |-> <<>>]

\* the session after a successful analyze
store_analysis(s, description, user_stories, entities, risks) ==
    [analysis |-> << [description |-> description, user_stories |-> user_stories,
                      entities |-> entities, risks |-> risks] >>,
     user_stories |-> <<user_stories>>,
     demo_description |-> <<>>]

\* Variant: the demo flag is cleared before the description is tested.
analyze_blank_pops_demo(s) == [s EXCEPT !.demo_description = <<>>]

\* the session when analyze is given a blank description
analyze_blank(s) == s

\* the PDF: the title cell, then one multi_cell "- " + story per story
pdf_cells(stories) == <<PdfTitle>> \o [k \in 1..Len(stories) |-> <<"-"," ">> \o stories[k]]

index ==
    /\ request' = [route |-> "/", form |-> <<>>]
    /\ response' = render_template("index.html", <<demo_or_empty(session)>>)
    /\ calls' = {}
    /\ UNCHANGED <<session, text, result>>

analyze(form) ==
    LET description == strip(form_get(form))
    IN  /\ request' = [route |-> "/analyze", form |-> form]
        /\ IF description = <<>>
           THEN /\ session' = analyze_blank(session)
                /\ response' = redirect("index")
                /\ calls' = {}
           ELSE /\ session' = store_analysis(session, description,
                                             generate_user_stories(description),
                                             extract_entities(description),
                                             generate_risks(description))
                /\ response' = redirect("results")
                /\ calls' = {"generate_user_stories", "extract_entities", "generate_risks"}
        /\ UNCHANGED <<text, result>>

results ==
    /\ request' = [route |-> "/results", form |-> <<>>]
    /\ response' = IF no_analysis(session) THEN redirect("index")
                   ELSE render_template("results.html", session.analysis)
    /\ calls' = {}
    /\ UNCHANGED <<session, text, result>>

demo ==
    /\ request' = [route |-> "/demo", form |-> <<>>]
    /\ session' = [session EXCEPT !.demo_description = <<sample_description>>]
    /\ response' = redirect("index")
    /\ calls' = {}
    /\ UNCHANGED <<text, result>>

export_stories_pdf ==
    /\ request' = [route |-> "/export_stories_pdf", form |-> <<>>]
    /\ response' = IF no_stories(session) THEN redirect("index")
                   ELSE [kind |-> "send_file", target |-> "specgenie_user_stories.pdf",
                         body |-> pdf_cells(session.user_stories[1])]
    /\ calls' = {}
    /\ UNCHANGED <<session, text, result>>

Init ==
    /\ session = EmptySession
    /\ request = NoRequest
    /\ response = NoResponse
    /\ calls = {}
    /\ text = <<>>
    /\ result = NoCall

Next ==
    \/ index
    \/ \E form \in Forms : analyze(form)
    \/ results
    \/ demo
    \/ export_stories_pdf

Spec == Init /\ [][Next]_vars

-----------------------------------------------------------------------------
(* The generators on their own                                             *)

call_generate_user_stories ==
    /\ result' = [fn |-> "generate_user_stories", out |-> generate_user_stories(text)]
    /\ UNCHANGED <<text, session, request, response, calls>>

call_extract_entities ==
    /\ result' = [fn |-> "extract_entities", out |-> extract_entities(text)]
    /\ UNCHANGED <<text, session, request, response, calls>>

call_generate_risks ==
    /\ result' = [fn |-> "generate_risks", out |-> generate_risks(text)]
    /\ UNCHANGED <<text, session, request, response, calls>>

FnInit ==
    /\ text \in Inputs
    /\ result = NoCall
    /\ session = EmptySession
    /\ request = NoRequest
    /\ response = NoResponse
    /\ calls = {}

FnNext ==
    \/ call_generate_user_stories
    \/ call_extract_entities
    \/ call_generate_risks

FnSpec == FnInit /\ [][FnNext]_vars

-----------------------------------------------------------------------------
(* Vocabulary of the properties, stated apart from the operators above     *)

\* kw occurs in s as a contiguous substring
Occurs(kw, s) ==
    \E i \in 1..(Len(s) - Len(kw) + 1) :
        s[i] = kw[1] /\ SubSeq(s, i, i + Len(kw) - 1) = kw

\* the number of positions of s at which kw occurs
Occurrences(kw, s) ==
    Cardinality({i \in 1..(Len(s) - Len(kw) + 1) :
                    s[i] = kw[1] /\ SubSeq(s, i, i + Len(kw) - 1) = kw})

\* the position of the first occurrence of kw in s (0 when there is none)
FirstOccurrence(kw, s) ==
    LET at == {i \in 1..(Len(s) - Len(kw) + 1) : SubSeq(s, i, i + Len(kw) - 1) = kw}
    IN  IF at = {} THEN 0 ELSE CHOOSE i \in at : \A j \in at : i <= j

\* s is empty or consists of whitespace only
BlankText(s) == \A i \in 1..Len(s) : s[i] \in {" ", "\n", "\t"}

\* how many entries of the sequence q equal x
CountIn(q, x) == Cardinality({i \in 1..Len(q) : q[i] = x})

\* the index of the table entry (a sequence of records) whose field value is x
\* under the projection f; 0 when there is none
IndexWhere(table, f(_), x) ==
    IF \E k \in 1..Len(table) : f(table[k]) = x
    THEN CHOOSE k \in 1..Len(table) : f(table[k]) = x
    ELSE 0

\* the input is the text a generator was applied to, lower-cased
LowerText == [i \in 1..Len(text) |-> lower_char(text[i])]

\* a keyword with its first letter in upper case
Capitalized(kw) == <<upper_char(kw[1])>> \o Tail(kw)

\* the starts of the maximal separator-free stretches of t
SegmentStarts(t) ==
    {i \in 1..Len(t) : t[i] \notin {".", "\n"} /\ (i = 1 \/ t[i - 1] \in {".", "\n"})}

\* the end of the stretch that starts at i
SegmentEnd(t, i) ==
    LET ends == {j \in i..Len(t) : j = Len(t) \/ t[j + 1] \in {".", "\n"}}
    IN  CHOOSE j \in ends : \A e \in ends : j <= e

\* the stretch that starts at i, without its surrounding whitespace
Trimmed(t, i) ==
    LET seg == SubSeq(t, i, SegmentEnd(t, i))
        ink == {m \in 1..Len(seg) : seg[m] \notin {" ", "\n", "\t"}}
    IN  IF ink = {} THEN <<>>
        ELSE SubSeq(seg, CHOOSE m \in ink : \A o \in ink : m <= o,
                         CHOOSE m \in ink : \A o \in ink : o <= m)

\* the starts of the stretches whose trimmed length is at least 10
Qualifying(t) == {i \in SegmentStarts(t) : Len(Trimmed(t, i)) >= 10}

\* the k-th qualifying stretch in order of appearance, trimmed and lower-cased
Statement(t, k) ==
    LET i == CHOOSE q \in Qualifying(t) :
                 Cardinality({p \in Qualifying(t) : p <= q}) = k
        seg == Trimmed(t, i)
    IN  [m \in 1..Len(seg) |-> lower_char(seg[m])]

SpecDefaultStory == <<"A","s"," ","a"," ","u","s","e","r",","," ","I"," ","w","a","n","t"," ","t","o"," ","u","s","e"," ","t","h","e"," ","s","y","s","t","e","m"," ","s","o"," ","t","h","a","t"," ","I"," ","c","a","n"," ","a","c","c","o","m","p","l","i","s","h"," ","m","y"," ","t","a","s","k","s",".">>

SpecStoryHead == <<"A","s"," ","a"," ","u","s","e","r",","," ","I"," ","w","a","n","t"," ","t","o"," ">>

SpecStoryTail == <<" ","s","o"," ","t","h","a","t"," ","I"," ","c","a","n"," ","a","c","c","o","m","p","l","i","s","h"," ","m","y"," ","g","o","a","l","s"," ","e","f","f","i","c","i","e","n","t","l","y",".">>

SpecFillers == {
    <<"t","h","e"," ","s","y","s","t","e","m"," ","s","h","o","u","l","d"," ">>, <<"t","h","e"," ","a","p","p"," ","s","h","o","u","l","d"," ">>, <<"u","s","e","r","s"," ","c","a","n"," ">>,
    <<"t","h","e"," ","u","s","e","r"," ","c","a","n"," ">>, <<"i","t"," ","s","h","o","u","l","d"," ">>, <<"s","h","o","u","l","d"," ">> }

\* the {action} part of a templated story
ActionOf(story) ==
    SubSeq(story, Len(SpecStoryHead) + 1, Len(story) - Len(SpecStoryTail))

IsTemplated(story) ==
    /\ Len(story) >= Len(SpecStoryHead) + Len(SpecStoryTail)
    /\ SubSeq(story, 1, Len(SpecStoryHead)) = SpecStoryHead
    /\ SubSeq(story, Len(story) - Len(SpecStoryTail) + 1, Len(story)) = SpecStoryTail

StoriesCalled == result.fn = "generate_user_stories"

EntitiesCalled == result.fn = "extract_entities"

RisksCalled == result.fn = "generate_risks"

-----------------------------------------------------------------------------
\* C1: generate_user_stories returns a non-empty list for every input, and for
\* an empty or whitespace-only input exactly the one default story.
C1_StoriesNonEmpty ==
    StoriesCalled =>
        /\ Len(result.out) >= 1
        /\ BlankText(text) => result.out = <<SpecDefaultStory>>

\* a whitespace-only, non-empty input was answered with the default story
C1_Witness ==
    /\ StoriesCalled
    /\ Len(text) >= 2
    /\ BlankText(text)
    /\ result.out = <<SpecDefaultStory>>

-----------------------------------------------------------------------------
SpecDefaultEntity ==
    [entity |-> <<"S","y","s","t","e","m">>,
     responsibilities |-> "Handle core business logic and user interactions"]

NoEntityKeyword ==
    \A k \in 1..Len(entity_patterns) : ~Occurs(entity_patterns[k].keyword, LowerText)

\* C2: extract_entities returns a non-empty list for every input; it returns
\* exactly the one default entity ("System", "Handle core business logic and
\* user interactions") when none of the 20 keywords occurs in the lower-cased
\* input, and in no other case.
C2_EntitiesNonEmpty ==
    EntitiesCalled =>
        /\ Len(entity_patterns) = 20
        /\ Len(result.out) >= 1
        /\ NoEntityKeyword <=> (result.out = <<SpecDefaultEntity>>)
        /\ \A i \in 1..Len(result.out) :
              result.out[i] = SpecDefaultEntity => NoEntityKeyword

\* a non-blank input without any keyword was answered with the default entity
C2_Witness ==
    /\ EntitiesCalled
    /\ ~BlankText(text)
    /\ NoEntityKeyword
    /\ result.out = <<SpecDefaultEntity>>

-----------------------------------------------------------------------------
\* impact and likelihood of the three baseline risks
SpecBaselineRatings == << <<"Medium", "Medium">>, <<"High", "Medium">>, <<"Medium", "High">> >>

SpecBaselineNames == <<
    "Performance issues with large datasets",
    "Security vulnerabilities in user input handling",
    "Insufficient error handling causing poor user experience" >>

IsBaseline(r) ==
    \E b \in 1..3 : r.risk = SpecBaselineNames[b]

\* C3: generate_risks returns at least 3 risks, the first three always the
\* baseline risks in the fixed order performance (Medium/Medium), input
\* handling security (High/Medium), error handling UX (Medium/High); every
\* later entry is a keyword-triggered risk.
C3_BaselineFirst ==
    RisksCalled =>
        /\ Len(result.out) >= 3
        /\ \A b \in 1..3 :
              result.out[b] = [risk |-> SpecBaselineNames[b],
                               impact |-> SpecBaselineRatings[b][1],
                               likelihood |-> SpecBaselineRatings[b][2]]
        /\ \A i \in 4..Len(result.out) :
              /\ ~IsBaseline(result.out[i])
              /\ \E k \in 1..Len(keyword_risks) : result.out[i] = keyword_risks[k].risk_data

\* keyword-triggered risks were appended, and the baseline still comes first
C3_Witness ==
    /\ RisksCalled
    /\ Len(result.out) >= 5
    /\ result.out[1].risk = SpecBaselineNames[1]
    /\ ~IsBaseline(result.out[4])

-----------------------------------------------------------------------------
SpecPaymentRisk ==
    [risk |-> "Payment gateway integration failure", impact |-> "High", likelihood |-> "Low"]

RiskDataOf(entry) == entry.risk_data

TriggeredRisks == SubSeq(result.out, 4, Len(result.out))

\* C4: the entries after the three baseline risks are exactly the triples of
\* the table keywords that occur in the lower-cased input, each once however
\* often the keyword occurs, in keyword-table order; an input containing
\* "payment" yields the payment-gateway triple exactly once.
C4_TriggeredRisks ==
    RisksCalled =>
        /\ \A k \in 1..Len(keyword_risks) :
              CountIn(TriggeredRisks, keyword_risks[k].risk_data)
                  = IF Occurs(keyword_risks[k].keyword, LowerText) THEN 1 ELSE 0
        /\ \A i \in 1..Len(TriggeredRisks) :
              IndexWhere(keyword_risks, RiskDataOf, TriggeredRisks[i]) > 0
        /\ \A i, j \in 1..Len(TriggeredRisks) :
              i < j => IndexWhere(keyword_risks, RiskDataOf, TriggeredRisks[i])
                         < IndexWhere(keyword_risks, RiskDataOf, TriggeredRisks[j])
        /\ Occurs(<<"p","a","y","m","e","n","t">>, LowerText) => CountIn(result.out, SpecPaymentRisk) = 1

\* "payment" occurs twice, after "mobile", and its triple still comes once and first
C4_Witness ==
    /\ RisksCalled
    /\ Occurrences(<<"p","a","y","m","e","n","t">>, LowerText) >= 2
    /\ FirstOccurrence(<<"m","o","b","i","l","e">>, LowerText) > 0
    /\ FirstOccurrence(<<"m","o","b","i","l","e">>, LowerText) < FirstOccurrence(<<"p","a","y","m","e","n","t">>, LowerText)
    /\ Len(result.out) = 5
    /\ result.out[4] = SpecPaymentRisk

-----------------------------------------------------------------------------
MatchingEntityKeywords ==
    {k \in 1..Len(entity_patterns) : Occurs(entity_patterns[k].keyword, LowerText)}

EntityNameOf(pattern) == Capitalized(pattern.keyword)

\* C5: when a keyword matches, extract_entities returns exactly the entries of
\* the keyword table whose keyword occurs in the lower-cased input: each once,
\* however often and wherever the keyword occurs, in table order, named by the
\* capitalized keyword, with the mapped responsibilities; no two entities
\* share a name.
C5_MatchingEntities ==
    (EntitiesCalled /\ MatchingEntityKeywords # {}) =>
        /\ Len(result.out) = Cardinality(MatchingEntityKeywords)
        /\ \A k \in MatchingEntityKeywords :
              CountIn(result.out,
                      [entity |-> Capitalized(entity_patterns[k].keyword),
                       responsibilities |-> entity_patterns[k].responsibilities]) = 1
        /\ \A i, j \in 1..Len(result.out) :
              i < j => /\ result.out[i].entity # result.out[j].entity
                       /\ IndexWhere(entity_patterns, EntityNameOf, result.out[i].entity)
                            < IndexWhere(entity_patterns, EntityNameOf, result.out[j].entity)

\* a keyword occurs twice, each time inside another word, and its entity is
\* listed once
C5_Witness ==
    /\ EntitiesCalled
    /\ Occurrences(<<"c","a","r","t">>, LowerText) = 2
    /\ Occurrences(<<"c","a","r","t","o","g","r","a","p","h","y">>, LowerText) = 2
    /\ result.out = <<[entity |-> <<"C","a","r","t">>,
                       responsibilities |-> "Manage items, calculate totals, handle quantities, persist session"]>>

-----------------------------------------------------------------------------
AnalyzeAccepted ==
    /\ request'.route = "/analyze"
    /\ ~BlankText(form_get(request'.form))

\* what is stored belongs to one submission
C6_RecordCoherent ==
    /\ (session.analysis = <<>>) <=> (session.user_stories = <<>>)
    /\ session.analysis # <<>> =>
          LET analysis == session.analysis[1]
          IN  /\ ~BlankText(analysis.description)
              /\ analysis.user_stories = generate_user_stories(analysis.description)
              /\ analysis.entities = extract_entities(analysis.description)
              /\ analysis.risks = generate_risks(analysis.description)
              /\ session.user_stories = <<analysis.user_stories>>

\* only an accepted analyze changes what is stored, and it stores the
\* description just submitted (trimmed)
C6_ReplacedWholesale ==
    IF AnalyzeAccepted
    THEN /\ Len(session'.analysis) = 1
         /\ session'.analysis[1].description = strip(form_get(request'.form))
    ELSE /\ session'.analysis = session.analysis
         /\ session'.user_stories = session.user_stories

\* C6: after any sequence of requests, a stored analysis record holds the
\* outputs of the three generators for its own description, which is the
\* latest non-blank submission; the separately stored user_stories equal the
\* record's stories; an accepted analyze replaces all of them at once.
C6_AnalysisRecord == [](C6_RecordCoherent) /\ [][C6_ReplacedWholesale]_vars

\* the PDF export reads the stories of a stored record with several stories
C6_Witness ==
    /\ response.kind = "send_file"
    /\ session.analysis # <<>>
    /\ Len(session.analysis[1].user_stories) >= 2
    /\ Len(response.body) = 1 + Len(session.analysis[1].user_stories)

-----------------------------------------------------------------------------
GuardFails ==
    \/ request'.route = "/results" /\ session.analysis = <<>>
    \/ request'.route = "/export_stories_pdf" /\ session.user_stories = <<>>
    \/ request'.route = "/analyze" /\ BlankText(form_get(request'.form))

C7_NoOp ==
    GuardFails =>
        /\ response'.kind = "redirect"
        /\ response'.target = "index"
        /\ calls' = {}
        /\ session' = session

\* C7: a request whose guard fails (results without a record, export without
\* stories, analyze with a blank description) redirects to index, invokes no
\* generator and leaves the session as it was.
C7_GuardedRedirect == [][C7_NoOp]_vars

\* a blank analyze was refused while a record and a pending demo were stored
C7_Witness ==
    /\ request.route = "/analyze"
    /\ request.form # <<>>
    /\ Len(request.form[1]) > 0
    /\ BlankText(request.form[1])
    /\ response.kind = "redirect"
    /\ response.target = "index"
    /\ session.analysis # <<>>
    /\ session.demo_description # <<>>

-----------------------------------------------------------------------------
HasDuplicates(q) == \E i, j \in 1..Len(q) : i < j /\ q[i] = q[j]

MatchingRiskKeywords ==
    {k \in 1..Len(keyword_risks) : Occurs(keyword_risks[k].keyword, LowerText)}

\* C8 as stated: some input makes generate_risks return the same triple twice.
C8_Original ==
    RisksCalled => \E d \in Inputs : HasDuplicates(generate_risks(d))

\* C8, amended: generate_risks never returns the same triple twice; it
\* returns the 3 baseline risks and one triple per keyword that occurs,
\* nothing dropped, so between 3 and 13 risks.
C8_NoDuplicates ==
    RisksCalled =>
        /\ ~HasDuplicates(result.out)
        /\ Len(result.out) = 3 + Cardinality(MatchingRiskKeywords)
        /\ Len(result.out) <= 13

\* every keyword of the table occurs twice, and the 13 risks come once each
C8_Witness ==
    /\ RisksCalled
    /\ \A k \in 1..Len(keyword_risks) : Occurrences(keyword_risks[k].keyword, LowerText) = 2
    /\ Len(result.out) = 13

-----------------------------------------------------------------------------
Example == <<"T","h","e"," ","s","y","s","t","e","m"," ","s","h","o","u","l","d"," ","a","l","l","o","w"," ","l","o","g","i","n","."," ","U","s","e","r","s"," ","c","a","n"," ","u","p","l","o","a","d"," ","f","i","l","e","s",".">>

\* story k is statement k with one leading filler removed, if it has one
OneFillerRemoved(k) ==
    LET base == Statement(text, k)
        action == ActionOf(result.out[k])
    IN  /\ IsTemplated(result.out[k])
        /\ IF \E p \in SpecFillers : Len(p) <= Len(base) /\ SubSeq(base, 1, Len(p)) = p
           THEN \E p \in SpecFillers : base = p \o action
           ELSE action = base

C9_General ==
    (StoriesCalled /\ Qualifying(text) # {}) =>
        \A k \in 1..Len(result.out) : OneFillerRemoved(k)

-----------------------------------------------------------------------------
IsSuffix(a, b) ==
    Len(a) <= Len(b) /\ SubSeq(b, Len(b) - Len(a) + 1, Len(b)) = a

=============================================================================
